---- MODULE Spec2Model ----
(***************************************************************************)
(* redis_info_provider: the shard registry (_ShardPublisher), the shard    *)
(* entity (RedisShard) and the polling engine (InfoPoller) as one state    *)
(* machine.                                                                *)
(*                                                                         *)
(* Scheduling is gevent's: greenlets run until they suspend.  An action is *)
(* one run of a greenlet from one suspension point to the next.  The       *)
(* suspension points of the code are gevent.sleep (three places of         *)
(* _poll_shard), the network read inside redis_conn.info, Greenlet.kill    *)
(* (inside _remove_shard) and gevent.killall (inside stop).                *)
(*                                                                         *)
(* Durations are in units of half a second (MIN_POLLING_INTERVAL).  A      *)
(* sleeping task records the duration it asked for; the timer's expiry is  *)
(* an event of the environment and may come at any later step.             *)
(***************************************************************************)
EXTENDS Integers, Sequences, FiniteSets, TLC

\* ---------------------------------------------------------------- bounds
\* Greenlet objects that may exist at once for one shard id (referenced or
\* alive).
MaxTasks == 2
\* Cap on consecutive_redis_failures (the code's counter is unbounded).
MaxRedisFailures == 2
\* Payloads the backends return in one run of the model.
MaxPolls == 2
\* Exceptions the backends raise in one run of the model.
MaxFaults == 2
\* The grace the engine is constructed with: InfoPoller(grace=Grace).
Grace == 2
\* The count of set_exception calls is kept up to this number.
MaxSinkCalls == 2
\* The clock runs from 1 up to this reading.
MaxClock == 3
\* Entries one subscriber list may hold.
MaxSubs == 2

\* ------------------------------------------------------ program constants
\* RedisShard.MIN_POLLING_INTERVAL = 0.5 s, in half seconds
MIN_POLLING_INTERVAL == 1
\* RedisShard.MAX_POLLING_INTERVAL = 3 s, in half seconds
MAX_POLLING_INTERVAL == 6
\* RedisShard.POLLING_INTERVAL_STEP = 0.5 s, in half seconds
POLLING_INTERVAL_STEP == 1
OPS_ACTIVE_THRESH == 10
OPS_INACTIVE_THRESH == 5
\* gevent.sleep(1) after a redis.RedisError, in half seconds
REDIS_COOL_OFF == 2
\* gevent.sleep(2) after any other exception, in half seconds
GENERAL_COOL_OFF == 4
\* 'info_age': 1e38 of a degraded record; the largest number the model has
\* stands for it
AGE_SENTINEL == 2147483647

\* ------------------------------------------------------------- universes
\* Shard identifiers, and the RedisShard objects discovery may create: two
\* distinct objects carry the identifier "a".
ShardIds == {"a", "b"}
Objs == {"a1", "a2", "b1"}
ObjId(o) == IF o = "b1" THEN "b" ELSE "a"

None == "None"
\* greenlet objects: the k-th one spawned for a shard id among those that exist
Tasks == ShardIds \X (1..MaxTasks)
\* no greenlet (a missing key of _greenlets)
NoRef == <<None, 0>>
\* Callers of the registry: two discovery greenlets.
Ctxs == {"d1", "d2"}

\* instantaneous_ops_per_sec values a fetched INFO may carry; OpsMissing
\* stands for a payload without the field.
OpsMissing == -1
OpsValues == {5, 7, 10}

\* info['meta'] as the poller leaves it: "info['meta'] = {}"
EmptyMeta == [has_age |-> FALSE, info_age |-> 0, shard_identifier |-> None,
              error |-> None]
\* Keys of an INFO dictionary, as sequences of characters (shortened):
\* 'instantaneous_ops_per_sec', and a second field that shares its first
\* character and stands for the rest of the payload
OPS_KEY == <<"i", "o">>
REST_KEY == <<"i", "k">>

\* RedisShard.info is None until set
NoInfo == [set |-> FALSE, ops |-> 0, tick |-> 0, meta |-> EmptyMeta]
\* a greenlet slot that holds no greenlet object
NoTask == [pc |-> "none", shard |-> None,
           consecutive_redis_failures |-> 0,
           consecutive_general_failures |-> 0,
           sleep_for |-> 0, exit |-> ""]
IdleCtx == [pc |-> "idle", id |-> None, target |-> NoRef]
\* a client that holds no value returned by the registry
NoHeld == [kind |-> "none", ids |-> {}, objs |-> {}]
\* callbacks a client of the registry subscribes, and the event kinds
Callbacks == {"f", "g"}
ADDED == "ADDED"
REMOVED == "REMOVED"

VARIABLES
    shards,           \* _ShardPublisher._shards : id -> RedisShard object
    subs_new,         \* _ShardPublisher._subs_new : list of callbacks
    subs_del,         \* _ShardPublisher._subs_del : list of callbacks
    info,             \* RedisShard._info, per object
    info_timestamp,   \* RedisShard.info_timestamp, per object
    interval,         \* RedisShard._interval, per object
    engine,           \* the InfoPoller's life: none, running, stopping, stopped
    greenlets,        \* InfoPoller._greenlets : id -> greenlet, or NoRef
    task,             \* the greenlets running _poll_shard
    killall_list,     \* the greenlets handed to gevent.killall by stop()
    exception_event,  \* InfoPoller.exception_event and what it was told
    polls,            \* payloads returned by the backends so far
    faults,           \* exceptions raised by the backends so far
    ctx,              \* where each registry caller is suspended
    now,              \* time.time(), in half seconds
    calls,            \* the callbacks the last registry call invoked, in order
    raised,           \* the exception the last call of a client raised, or None
    resp,             \* what the last GetInfos returned
    held              \* what a client keeps from get_live_shards / _shard_ids

vars == <<shards, subs_new, subs_del, info, info_timestamp, interval, engine,
          greenlets, task, killall_list, exception_event, polls, faults, ctx,
          now, calls, raised, resp, held>>

envVars == <<polls, faults>>
shardVars == <<info, info_timestamp, interval>>
registryVars == <<shards, subs_new, subs_del>>
\* the clock and what the clients of registry and servicer observe
clientVars == <<now, calls, raised, resp, held>>

\* --------------------------------------------------------------- helpers
Min(a, b) == IF a < b THEN a ELSE b
Max(a, b) == IF a > b THEN a ELSE b

\* a greenlet that has been spawned and has not finished
Alive(tk) == tk.pc \notin {"none", "dead"}
LiveTasksOf(id) == {t \in Tasks : Alive(task[t]) /\ ObjId(task[t].shard) = id}

Subscribed(list, cb) == \E i \in 1..Len(list) : list[i] = cb
\* list.remove(x): drops the first occurrence
Remove(list, cb) ==
    LET i == CHOOSE k \in 1..Len(list) :
                 list[k] = cb /\ \A j \in 1..(k-1) : list[j] # cb
    IN  SubSeq(list, 1, i-1) \o SubSeq(list, i+1, Len(list))

\* Greenlet objects nothing refers to any more are gone: a slot is free again
\* once its greenlet is dead and neither _greenlets, nor a suspended kill,
\* nor a suspended killall holds it.
Collect(tk, g, cx, kl) ==
    [t \in Tasks |->
        IF /\ tk[t].pc = "dead"
           /\ \A id \in ShardIds : g[id] # t
           /\ \A c \in Ctxs : cx[c].target # t
           /\ t \notin kl
        THEN NoTask ELSE tk[t]]

\* gevent.spawn(lambda: self._poll_shard(shard)): scheduled, not yet run
Spawned(o) == [NoTask EXCEPT !.pc = "spawned", !.shard = o]

\* ------------------------------------------------------------------ Init
Init ==
    /\ shards = [id \in ShardIds |-> None]
    /\ subs_new = <<>>
    /\ subs_del = <<>>
    /\ info = [o \in Objs |-> NoInfo]
    /\ info_timestamp = [o \in Objs |-> 0]
    /\ interval = [o \in Objs |-> MIN_POLLING_INTERVAL]
    /\ engine = "none"
    /\ greenlets = [id \in ShardIds |-> NoRef]
    /\ task = [t \in Tasks |-> NoTask]
    /\ killall_list = {}
    /\ exception_event = [set |-> FALSE, calls |-> 0, exc |-> None]
    /\ polls = 0
    /\ faults = 0
    /\ ctx = [c \in Ctxs |-> IdleCtx]
    /\ now = 1
    /\ calls = <<>>
    /\ raised = None
    /\ resp = <<>>
    /\ held = NoHeld

\* ------------------------------------------------- RedisShard (the entity)
\* a pacing rule that does not clamp
update_interval_NoClamp(i, ops) ==
    IF ops >= OPS_ACTIVE_THRESH THEN MIN_POLLING_INTERVAL
    ELSE IF ops <= OPS_INACTIVE_THRESH THEN i + POLLING_INTERVAL_STEP
    ELSE i
\* a pacing rule that backs off whenever the shard is not active
update_interval_NoBand(i, ops) ==
    LET stepped == IF ops >= OPS_ACTIVE_THRESH THEN MIN_POLLING_INTERVAL
                   ELSE i + POLLING_INTERVAL_STEP
    IN  Max(MIN_POLLING_INTERVAL, Min(MAX_POLLING_INTERVAL, stepped))
\* RedisShard._update_interval, for a payload that carries the field
update_interval(i, ops) ==
    LET stepped == IF ops >= OPS_ACTIVE_THRESH THEN MIN_POLLING_INTERVAL
                   ELSE IF ops <= OPS_INACTIVE_THRESH
                        THEN i + POLLING_INTERVAL_STEP
                        ELSE i
    IN  Max(MIN_POLLING_INTERVAL, Min(MAX_POLLING_INTERVAL, stepped))

\* ---------------------------------------------- InfoPoller: the callbacks
\* a check that never finds the shard
AlreadyTracking_Never(g, id) == FALSE
\* a check that always finds the shard
AlreadyTracking_Always(g, id) == TRUE
\* "if shard.id in self._greenlets: return"
AlreadyTracking(g, id) == g[id] # NoRef

\* InfoPoller._add_shard on the engine state st = [g: _greenlets, tk: tasks]
add_shard_cb(st, o) ==
    IF AlreadyTracking(st.g, ObjId(o)) THEN st
    ELSE LET free == {k \in 1..MaxTasks : st.tk[<<ObjId(o), k>>].pc = "none"}
             t == <<ObjId(o), CHOOSE x \in free : \A y \in free : x <= y>>
         IN  [g |-> [st.g EXCEPT ![ObjId(o)] = t],
              tk |-> [st.tk EXCEPT ![t] = Spawned(o)]]

\* the spawn of _add_shard needs a greenlet slot of the model
HasRoom(g, tk, objs) ==
    \A o \in objs :
        \/ AlreadyTracking(g, ObjId(o))
        \/ \E k \in 1..MaxTasks : tk[<<ObjId(o), k>>].pc = "none"

\* a constructor that leaves the shards that already exist unpolled
add_all_SkipsLive(st, objs) == st
RECURSIVE add_all(_, _)
\* "for shard in ShardPublisher.get_live_shards(): self._add_shard(shard)"
add_all(st, objs) ==
    IF objs = {} THEN st
    ELSE LET o == CHOOSE x \in objs : TRUE
         IN  add_all(add_shard_cb(st, o), objs \ {o})

\* ------------------------------------------------- _ShardPublisher (bus)
get_live_shards == {shards[id] : id \in {i \in ShardIds : shards[i] # None}}
\* a getter that reports every id it has ever heard of
get_live_shard_ids_All == ShardIds
get_live_shard_ids == {id \in ShardIds : shards[id] # None}

\* _ShardPublisher.add_shard: store, then call every ADDED subscriber
add_shard(c, o) ==
    /\ ctx[c].pc = "idle"
    /\ shards' = [shards EXCEPT ![ObjId(o)] = o]
    /\ IF Subscribed(subs_new, "_add_shard")
       THEN /\ HasRoom(greenlets, task, {o})
            /\ LET st == add_shard_cb([g |-> greenlets, tk |-> task], o)
               IN  greenlets' = st.g /\ task' = st.tk
       ELSE UNCHANGED <<greenlets, task>>
    /\ UNCHANGED <<subs_new, subs_del, shardVars, engine, killall_list,
                   exception_event, envVars, ctx>>

\* Greenlet.kill() returns without switching to the hub when the greenlet
\* is already dead
KillReturnsAtOnce(tk) == tk.pc = "dead"

\* Greenlet.kill() on a greenlet that has not started cancels its start
KillCalled(tk) ==
    IF tk.pc = "spawned"
    THEN [NoTask EXCEPT !.pc = "dead", !.shard = tk.shard, !.exit = "killed"]
    ELSE tk

\* a greenlet that swallows GreenletExit and goes on
Killed_Survives(tk) == tk
\* the greenlet receives GreenletExit at its suspension point and re-raises
Killed(tk) ==
    IF Alive(tk)
    THEN [NoTask EXCEPT !.pc = "dead", !.shard = tk.shard, !.exit = "killed"]
    ELSE tk

\* a handler that forgets the del
del_entry_Forgotten(g, id) == g
\* "del self._greenlets[shard.id]"; a KeyError is caught and logged
del_entry(g, id) == [g EXCEPT ![id] = NoRef]

\* a removal that, finding no entry, cancels the id's greenlets all the same
del_shard_StrictOnMissing(c, id) ==
    /\ ctx[c].pc = "idle"
    /\ shards[id] # None
    /\ shards' = [shards EXCEPT ![id] = None]
    /\ LET t == greenlets[id] IN
       IF ~Subscribed(subs_del, "_remove_shard")
       THEN UNCHANGED <<greenlets, task, ctx>>
       ELSE IF t = NoRef
       THEN /\ task' = Collect([u \in Tasks |->
                                  IF ObjId(task[u].shard) = id
                                  THEN Killed(task[u]) ELSE task[u]],
                               greenlets, ctx, killall_list)
            /\ UNCHANGED <<greenlets, ctx>>
       ELSE IF KillReturnsAtOnce(task[t])
       THEN /\ greenlets' = del_entry(greenlets, id)
            /\ task' = Collect(task, greenlets', ctx, killall_list)
            /\ UNCHANGED ctx
       ELSE /\ ctx' = [ctx EXCEPT ![c] =
                         [pc |-> "kill", id |-> id, target |-> t]]
            /\ task' = [task EXCEPT ![t] = KillCalled(@)]
            /\ UNCHANGED greenlets
    /\ UNCHANGED <<subs_new, subs_del, shardVars, engine, killall_list,
                   exception_event, envVars>>
\* _ShardPublisher.del_shard: pop (KeyError when absent), then call every
\* REMOVED subscriber.  InfoPoller._remove_shard suspends in kill() unless
\* there is no entry (KeyError) or the greenlet is already dead.
del_shard(c, id) ==
    /\ ctx[c].pc = "idle"
    /\ shards[id] # None
    /\ shards' = [shards EXCEPT ![id] = None]
    /\ LET t == greenlets[id] IN
       IF ~Subscribed(subs_del, "_remove_shard") \/ t = NoRef
       THEN UNCHANGED <<greenlets, task, ctx>>
       ELSE IF KillReturnsAtOnce(task[t])
       THEN /\ greenlets' = del_entry(greenlets, id)
            /\ task' = Collect(task, greenlets', ctx, killall_list)
            /\ UNCHANGED ctx
       ELSE /\ ctx' = [ctx EXCEPT ![c] =
                         [pc |-> "kill", id |-> id, target |-> t]]
            /\ task' = [task EXCEPT ![t] = KillCalled(@)]
            /\ UNCHANGED greenlets
    /\ UNCHANGED <<subs_new, subs_del, shardVars, engine, killall_list,
                   exception_event, envVars>>

\* The hub runs the callback kill() scheduled: the greenlet dies, and the
\* caller of kill() resumes at once: "del self._greenlets[shard.id]", then
\* del_shard returns.
kill_lands(c) ==
    /\ ctx[c].pc = "kill"
    /\ LET t == ctx[c].target
           id == ctx[c].id
           tk1 == [task EXCEPT ![t] = Killed(@)]
       IN  /\ greenlets' = del_entry(greenlets, id)
           /\ ctx' = [ctx EXCEPT ![c] = IdleCtx]
           /\ task' = Collect(tk1, greenlets', ctx', killall_list)
    /\ UNCHANGED <<registryVars, shardVars, engine, killall_list,
                   exception_event, envVars>>

\* a clear that drops the shards of one id only
clear_shards_KeepsOne(c) ==
    /\ ctx[c].pc = "idle"
    /\ shards # [id \in ShardIds |-> None]
    /\ shards' = [shards EXCEPT !["a"] = None]
    /\ UNCHANGED <<subs_new, subs_del, shardVars, engine, greenlets, task,
                   killall_list, exception_event, envVars, ctx>>
\* _ShardPublisher.clear_shards
clear_shards(c) ==
    /\ ctx[c].pc = "idle"
    /\ shards # [id \in ShardIds |-> None]
    /\ shards' = [id \in ShardIds |-> None]
    /\ UNCHANGED <<subs_new, subs_del, shardVars, engine, greenlets, task,
                   killall_list, exception_event, envVars, ctx>>

\* ------------------------------------------------ InfoPoller: life cycle
\* InfoPoller.__init__: subscribe, then poll the shards that already exist
construct ==
    /\ engine = "none"
    /\ engine' = "running"
    /\ subs_new' = Append(subs_new, "_add_shard")
    /\ subs_del' = Append(subs_del, "_remove_shard")
    /\ HasRoom(greenlets, task, get_live_shards)
    /\ LET st == add_all([g |-> greenlets, tk |-> task], get_live_shards)
       IN  greenlets' = st.g /\ task' = st.tk
    /\ UNCHANGED <<shards, shardVars, killall_list, exception_event, envVars, ctx>>

\* InfoPoller.set_exception_event
set_exception_event ==
    /\ engine = "running"
    /\ ~exception_event.set
    /\ exception_event' = [exception_event EXCEPT !.set = TRUE]
    /\ UNCHANGED <<registryVars, shardVars, engine, greenlets, task,
                   killall_list, envVars, ctx>>

\* the greenlets stop() hands to gevent.killall
killall_targets(g) == {g[id] : id \in {i \in ShardIds : g[i] # NoRef}}

\* InfoPoller.stop: unsubscribe; gevent.killall returns at once on an empty
\* list and otherwise suspends until the hub has killed the greenlets
stop ==
    /\ engine = "running"
    /\ subs_new' = Remove(subs_new, "_add_shard")
    /\ subs_del' = Remove(subs_del, "_remove_shard")
    /\ IF killall_targets(greenlets) = {}
       THEN /\ engine' = "stopped"
            /\ UNCHANGED <<greenlets, task, killall_list>>
       ELSE /\ engine' = "stopping"
            /\ killall_list' = killall_targets(greenlets)
            /\ task' = [t \in Tasks |->
                          IF t \in killall_list' THEN KillCalled(task[t])
                          ELSE task[t]]
            /\ UNCHANGED greenlets
    /\ UNCHANGED <<shards, shardVars, exception_event, envVars, ctx>>

\* The hub runs killall's callback: every listed greenlet dies, stop()
\* resumes: "self._greenlets.clear()"
killall_lands ==
    /\ engine = "stopping"
    /\ engine' = "stopped"
    /\ killall_list' = {}
    /\ greenlets' = [id \in ShardIds |-> NoRef]
    /\ task' = Collect([t \in Tasks |->
                          IF t \in killall_list THEN Killed(task[t])
                          ELSE task[t]],
                       greenlets', ctx, killall_list')
    /\ UNCHANGED <<registryVars, shardVars, exception_event, envVars, ctx>>

\* ------------------------------------------- InfoPoller._poll_shard (task)
\* a loop that gives up once the redis failures reach the grace
on_redis_error_GivesUp(tk) ==
    IF tk.consecutive_redis_failures + 1 < Grace
    THEN [tk EXCEPT !.consecutive_redis_failures = @ + 1,
                    !.pc = "backoff", !.sleep_for = REDIS_COOL_OFF]
    ELSE [NoTask EXCEPT !.pc = "dead", !.shard = tk.shard, !.exit = "error"]
\* a redis failure that forgives the general failures counted so far
on_redis_error_ForgivesGeneral(tk) ==
    [tk EXCEPT !.consecutive_redis_failures = @ + 1,
               !.consecutive_general_failures = 0,
               !.pc = "backoff", !.sleep_for = REDIS_COOL_OFF]
\* "except redis.RedisError": count, log, gevent.sleep(1), retry
on_redis_error(tk) ==
    [tk EXCEPT !.consecutive_redis_failures = @ + 1,
               !.pc = "backoff", !.sleep_for = REDIS_COOL_OFF]

\* an off-by-one grace
WithinGrace_OffByOne(n) == n <= Grace
\* "if consecutive_general_failures < self._grace"
WithinGrace(n) == n < Grace

\* "except Exception": count; gevent.sleep(2) within grace, else re-raise
on_general_error(tk) ==
    IF WithinGrace(tk.consecutive_general_failures + 1)
    THEN [tk EXCEPT !.consecutive_general_failures = @ + 1,
                    !.pc = "cooloff", !.sleep_for = GENERAL_COOL_OFF]
    ELSE [NoTask EXCEPT !.pc = "dead", !.shard = tk.shard, !.exit = "error"]

\* "if self.exception_event: self.exception_event.set_exception(e)"
signal(ev, tk, e) ==
    IF ~WithinGrace(tk.consecutive_general_failures + 1) /\ ev.set
    THEN [ev EXCEPT !.calls = Min(@ + 1, MaxSinkCalls), !.exc = e]
    ELSE ev

\* an exit on error that takes the other greenlets down with it
TaskBecomes_TakesAllDown(t, tk, ev) ==
    /\ task' = [u \in Tasks |->
                  IF u = t THEN tk
                  ELSE IF tk.exit = "error" /\ Alive(task[u])
                       THEN [NoTask EXCEPT !.pc = "dead", !.shard = task[u].shard,
                                           !.exit = "error"]
                       ELSE task[u]]
    /\ exception_event' = ev
\* the task's record replaces its slot; the failure sink is told or not
TaskBecomes(t, tk, ev) ==
    /\ task' = Collect([task EXCEPT ![t] = tk], greenlets, ctx, killall_list)
    /\ exception_event' = ev

\* What a caught exception does to task t
Fails(t, kind) ==
    IF kind = "redis_error"
    THEN /\ task[t].consecutive_redis_failures < MaxRedisFailures
         /\ TaskBecomes(t, on_redis_error(task[t]), exception_event)
    ELSE TaskBecomes(t, on_general_error(task[t]),
                     signal(exception_event, task[t], ObjId(task[t].shard)))

\* the backend (or the connection factory) raises
Raises(t, kind) ==
    /\ faults < MaxFaults
    /\ faults' = faults + 1
    /\ UNCHANGED polls
    /\ Fails(t, kind)

\* "redis_conn = shard.redis_conn() if callable(...)", then the call of
\* redis_conn.info('everything'), which suspends on the socket
connect(t, outcome) ==
    /\ IF outcome = "ok"
       THEN /\ TaskBecomes(t, [task[t] EXCEPT !.pc = "fetch", !.sleep_for = 0],
                           exception_event)
            /\ UNCHANGED envVars
       ELSE Raises(t, outcome)
    /\ UNCHANGED <<registryVars, shardVars, engine, greenlets, killall_list, ctx>>

\* the greenlet starts running _poll_shard
poll_start(t, outcome) ==
    /\ task[t].pc = "spawned"
    /\ connect(t, outcome)

\* gevent.sleep(1) or gevent.sleep(2) is over: the outer loop runs again
retry(t, outcome) ==
    /\ task[t].pc \in {"backoff", "cooloff"}
    /\ connect(t, outcome)

\* gevent.sleep(shard.polling_interval()) is over: the inner loop polls again
poll_again(t) ==
    /\ task[t].pc = "sleep"
    /\ TaskBecomes(t, [task[t] EXCEPT !.pc = "fetch", !.sleep_for = 0],
                   exception_event)
    /\ UNCHANGED <<registryVars, shardVars, engine, greenlets, killall_list,
                   envVars, ctx>>

\* the INFO a fetch returns; its content differs from the last one stored
Payload(o, ops) == [set |-> TRUE, ops |-> ops, tick |-> 1 - info[o].tick,
                    meta |-> EmptyMeta]

\* "shard.info = value" (the info setter): the value is stored, then
\* _update_interval runs; a value without the activity field raises KeyError
\* out of the assignment, after the value was stored
set_info(o, ops) ==
    /\ info' = [info EXCEPT ![o] = Payload(o, ops)]
    /\ IF ops = OpsMissing
       THEN /\ raised' = "KeyError"
            /\ UNCHANGED interval
       ELSE /\ raised' = None
            /\ interval' = [interval EXCEPT ![o] = update_interval(@, ops)]
    /\ UNCHANGED <<registryVars, info_timestamp, engine, greenlets, task,
                   killall_list, exception_event, envVars, ctx,
                   now, calls, resp, held>>

\* a fetch that looks for the activity field before it stores the payload
fetch_ok_ChecksFirst(t, ops) ==
    LET o == task[t].shard IN
    /\ task[t].pc = "fetch"
    /\ polls < MaxPolls
    /\ polls' = polls + 1
    /\ UNCHANGED faults
    /\ IF ops = OpsMissing
       THEN /\ UNCHANGED <<info, interval>>
            /\ Fails(t, "error")
       ELSE /\ info' = [info EXCEPT ![o] = Payload(o, ops)]
            /\ interval' = [interval EXCEPT ![o] = update_interval(@, ops)]
            /\ TaskBecomes(t, [task[t] EXCEPT
                                  !.consecutive_redis_failures = 0,
                                  !.consecutive_general_failures = 0,
                                  !.pc = "sleep",
                                  !.sleep_for = interval'[o]],
                           exception_event)
    /\ UNCHANGED <<registryVars, info_timestamp, engine, greenlets,
                   killall_list, ctx>>
\* redis_conn.info returned: "shard.info = info" stores the payload and runs
\* _update_interval, which raises KeyError when the field is missing; then
\* both counters are reset and the task sleeps for polling_interval()
fetch_ok(t, ops) ==
    LET o == task[t].shard IN
    /\ task[t].pc = "fetch"
    /\ polls < MaxPolls
    /\ polls' = polls + 1
    /\ UNCHANGED faults
    /\ info' = [info EXCEPT ![o] = Payload(o, ops)]
    /\ IF ops = OpsMissing
       THEN /\ UNCHANGED interval
            /\ Fails(t, "error")
       ELSE /\ interval' = [interval EXCEPT ![o] = update_interval(@, ops)]
            /\ TaskBecomes(t, [task[t] EXCEPT
                                  !.consecutive_redis_failures = 0,
                                  !.consecutive_general_failures = 0,
                                  !.pc = "sleep",
                                  !.sleep_for = interval'[o]],
                           exception_event)
    /\ UNCHANGED <<registryVars, info_timestamp, engine, greenlets,
                   killall_list, ctx>>

\* redis_conn.info raised
fetch_fails(t, kind) ==
    /\ task[t].pc = "fetch"
    /\ Raises(t, kind)
    /\ UNCHANGED <<registryVars, shardVars, engine, greenlets, killall_list, ctx>>

ConnectOutcomes == {"ok", "redis_error", "error"}
FailureKinds == {"redis_error", "error"}

\* one run of a polling greenlet, from a suspension point to the next
task_step(t) ==
    \/ \E r \in ConnectOutcomes : poll_start(t, r)
    \/ \E r \in ConnectOutcomes : retry(t, r)
    \/ poll_again(t)
    \/ \E ops \in OpsValues \cup {OpsMissing} : fetch_ok(t, ops)
    \/ \E k \in FailureKinds : fetch_fails(t, k)

\* ------------------------------------- _ShardPublisher and its clients
\* a loop that runs through the list from its end
notify_Reversed(list, event, o) ==
    [i \in 1..Len(list) |->
        [tgt |-> list[Len(list) + 1 - i], event |-> event, shard |-> o]]
\* "for tgt in subs: tgt(shard)": the invocations, in the order of the list
notify(list, event, o) ==
    [i \in 1..Len(list) |-> [tgt |-> list[i], event |-> event, shard |-> o]]

\* ShardEvent.select_event_list
select_event_list(event) == IF event = ADDED THEN subs_new ELSE subs_del

\* _ShardPublisher.subscribe_shard_event: append, whatever the list holds
subscribe_shard_event(event, target) ==
    /\ Len(select_event_list(event)) < MaxSubs
    /\ IF event = ADDED
       THEN subs_new' = Append(subs_new, target) /\ UNCHANGED subs_del
       ELSE subs_del' = Append(subs_del, target) /\ UNCHANGED subs_new
    /\ calls' = <<>>
    /\ raised' = None
    /\ UNCHANGED <<shards, shardVars, engine, greenlets, task, killall_list,
                   exception_event, envVars, ctx, now, resp, held>>

\* an unsubscribe that takes an unknown callback in silence
unsub_shard_event_Lenient(event, target) ==
    /\ raised' = None
    /\ IF ~Subscribed(select_event_list(event), target)
       THEN UNCHANGED <<subs_new, subs_del>>
       ELSE IF event = ADDED
       THEN subs_new' = Remove(subs_new, target) /\ UNCHANGED subs_del
       ELSE subs_del' = Remove(subs_del, target) /\ UNCHANGED subs_new
    /\ calls' = <<>>
    /\ UNCHANGED <<shards, shardVars, engine, greenlets, task, killall_list,
                   exception_event, envVars, ctx, now, resp, held>>
\* _ShardPublisher.unsub_shard_event: list.remove drops the first
\* occurrence and raises ValueError when there is none
unsub_shard_event(event, target) ==
    /\ IF Subscribed(select_event_list(event), target)
       THEN /\ raised' = None
            /\ IF event = ADDED
               THEN subs_new' = Remove(subs_new, target) /\ UNCHANGED subs_del
               ELSE subs_del' = Remove(subs_del, target) /\ UNCHANGED subs_new
       ELSE /\ raised' = "ValueError"
            /\ UNCHANGED <<subs_new, subs_del>>
    /\ calls' = <<>>
    /\ UNCHANGED <<shards, shardVars, engine, greenlets, task, killall_list,
                   exception_event, envVars, ctx, now, resp, held>>

\* add_shard as its caller and the subscribers see it
add_shard_seen(c, o) ==
    /\ add_shard(c, o)
    /\ calls' = notify(subs_new, ADDED, o)
    /\ raised' = None
    /\ UNCHANGED <<now, resp, held>>

\* del_shard of a present id as its caller and the subscribers see it
del_shard_seen(c, id) ==
    /\ del_shard(c, id)
    /\ calls' = notify(subs_del, REMOVED, shards[id])
    /\ raised' = None
    /\ UNCHANGED <<now, resp, held>>

\* a removal that tells the subscribers of an id it never held
del_shard_absent_Notifies(c, id) ==
    /\ ctx[c].pc = "idle"
    /\ shards[id] = None
    /\ calls' = notify(subs_del, REMOVED, None)
    /\ raised' = None
    /\ UNCHANGED <<registryVars, shardVars, engine, greenlets, task,
                   killall_list, exception_event, envVars, ctx, now, resp, held>>
\* del_shard of an absent id: "self._shards.pop(shard_id)" raises KeyError
del_shard_absent(c, id) ==
    /\ ctx[c].pc = "idle"
    /\ shards[id] = None
    /\ calls' = <<>>
    /\ raised' = "KeyError"
    /\ UNCHANGED <<registryVars, shardVars, engine, greenlets, task,
                   killall_list, exception_event, envVars, ctx, now, resp, held>>

\* clear_shards as its caller and the subscribers see it
clear_shards_seen(c) ==
    /\ clear_shards(c)
    /\ calls' = <<>>
    /\ raised' = None
    /\ UNCHANGED <<now, resp, held>>

\* a client keeps what get_live_shards returned: "self._shards.values()"
\* is a list of its own under Python 2 and a view of the dictionary under
\* Python 3
keep_live_shards(build) ==
    /\ held' = [kind |-> IF build = "py2" THEN "list" ELSE "view",
                ids |-> {}, objs |-> get_live_shards]
    /\ calls' = <<>>
    /\ raised' = None
    /\ UNCHANGED <<registryVars, shardVars, engine, greenlets, task,
                   killall_list, exception_event, envVars, ctx, now, resp>>

\* a client keeps what get_live_shard_ids returned: "set(self._shards.keys())"
keep_live_shard_ids ==
    /\ held' = [kind |-> "set", ids |-> get_live_shard_ids, objs |-> {}]
    /\ calls' = <<>>
    /\ raised' = None
    /\ UNCHANGED <<registryVars, shardVars, engine, greenlets, task,
                   killall_list, exception_event, envVars, ctx, now, resp>>

\* what the kept value holds when the client looks at it
HeldObjs == IF held.kind = "view" THEN get_live_shards ELSE held.objs
HeldIds == held.ids

\* ------------------------------------------------------------- the clock
\* time passes: time.time() returns a later reading
Tick ==
    /\ now < MaxClock
    /\ now' = now + 1
    /\ UNCHANGED <<registryVars, shardVars, engine, greenlets, task,
                   killall_list, exception_event, envVars, ctx,
                   calls, raised, resp, held>>

\* ------------------------------------------------ InfoProviderServicer
\* str.startswith
StartsWith(full_key, key) ==
    /\ Len(key) <= Len(full_key)
    /\ SubSeq(full_key, 1, Len(key)) = key

\* a match that ignores prefix_matching
is_matching_key_ExactOnly(full_key, keys, prefix_matching) == full_key \in keys
\* is_matching_key of _filter_info
is_matching_key(full_key, keys, prefix_matching) ==
    IF ~prefix_matching THEN full_key \in keys
    ELSE \E key \in keys : StartsWith(full_key, key)

\* the fields of a stored INFO besides 'meta', as a dictionary
InfoDict(inf) ==
    [k \in (IF inf.ops = OpsMissing THEN {} ELSE {OPS_KEY}) \cup {REST_KEY} |->
        IF k = OPS_KEY THEN inf.ops ELSE inf.tick]

\* _filter_info: the fields of full_info the response record carries; its
\* 'meta' is full_info's own 'meta' dictionary in both branches
filter_info(full_info, keys, prefix_matching) ==
    IF keys = {} THEN InfoDict(full_info)
    ELSE [k \in {f \in DOMAIN InfoDict(full_info) :
                    is_matching_key(f, keys, prefix_matching)} |->
            InfoDict(full_info)[k]]

\* a lookup that has one error for both failures
get_shard_with_info_OneError(shard_id) ==
    IF shards[shard_id] = None \/ ~info[shards[shard_id]].set
    THEN "not found" ELSE "ok"
\* a lookup that takes a shard without INFO for a polled one
get_shard_with_info_Lenient(shard_id) ==
    IF shards[shard_id] = None THEN "not found" ELSE "ok"
\* _get_shard_with_info: "ok", or the KeyError it raises
get_shard_with_info(shard_id) ==
    IF shards[shard_id] = None THEN "not found"
    ELSE IF ~info[shards[shard_id]].set THEN "not available"
    ELSE "ok"

\* a default target list that takes every live shard
polled_live_ids_AllLive == get_live_shard_ids
\* "[shard.id for shard in get_live_shards() if shard.info]", as a set
polled_live_ids == {id \in get_live_shard_ids : info[shards[id]].set}

\* the orders in which a dictionary's values may be iterated
Orders(S) == {q \in UNION {[1..n -> S] : n \in {Cardinality(S)}} :
                 \A i, j \in 1..Len(q) : i # j => q[i] # q[j]}

\* a staleness test that also drops a snapshot exactly max_age old
TooOld_Inclusive(info_age, max_age) == max_age # 0 /\ info_age >= max_age
\* "if max_age and info_age > max_age"
TooOld(info_age, max_age) == max_age # 0 /\ info_age > max_age

\* a response list that grows at its head
append_AtHead(list, msg) == <<msg>> \o list
\* "resp.append(msg)"
append(list, msg) == Append(list, msg)

\* The body of GetInfos's loop for the first i ids of the list, on the state
\* st = [resp: records so far, info: the shards' info, raised: the KeyError
\* that ended the call, or None].  "continue" adds nothing; a record of a
\* polled shard shares its 'meta' with the shard's info, so the two writes
\* into msg['meta'] land in the shard's info.
RECURSIVE GetInfosLoop(_, _, _, _, _, _, _)
GetInfosLoop(st, ids, i, keys, allow_partial, max_age, prefix_matching) ==
    IF i > Len(ids) \/ st.raised # None THEN st
    ELSE
      LET shard_id == ids[i]
          got == get_shard_with_info(shard_id)
          o == shards[shard_id]
          info_age == now - info_timestamp[o]
          next ==
            IF got # "ok"
            THEN IF allow_partial
                 THEN [st EXCEPT !.resp = append(@,
                         [of |-> None, data |-> <<>>,
                          meta |-> [has_age |-> TRUE, info_age |-> AGE_SENTINEL,
                                    shard_identifier |-> shard_id,
                                    error |-> got]])]
                 ELSE [st EXCEPT !.raised = got]
            ELSE IF TooOld(info_age, max_age)
            THEN st
            ELSE LET m == [st.info[o].meta EXCEPT
                              !.has_age = TRUE, !.info_age = info_age,
                              !.shard_identifier = shard_id]
                 IN  [st EXCEPT
                        !.info[o].meta = m,
                        !.resp = append(@,
                           [of |-> o,
                            data |-> filter_info(st.info[o], keys, prefix_matching),
                            meta |-> m])]
      IN  GetInfosLoop(next, ids, i + 1, keys, allow_partial, max_age,
                       prefix_matching)

\* InfoProviderServicer.GetInfos: the call returns the list, or raises and
\* returns nothing
GetInfos(shard_ids, keys, allow_partial, max_age, prefix_matching) ==
    \E ids \in (IF shard_ids # <<>> THEN {shard_ids} ELSE Orders(polled_live_ids)) :
        LET st == GetInfosLoop([resp |-> <<>>, info |-> info, raised |-> None],
                               ids, 1, keys, allow_partial, max_age,
                               prefix_matching)
        IN  /\ info' = st.info
            /\ raised' = st.raised
            /\ resp' = IF st.raised = None THEN st.resp ELSE <<>>
            /\ UNCHANGED <<registryVars, info_timestamp, interval, engine,
                           greenlets, task, killall_list, exception_event,
                           envVars, ctx, now, calls, held>>

\* ---------------------------------------------------------- specification
\* The registry's callers serialize their calls (one coordinating context):
\* a call starts only when no other call is suspended.
Quiescent == engine # "stopping" /\ \A c \in Ctxs : ctx[c].pc = "idle"

\* everything but AddShard; the engine runs with no client observing
Rest ==
    \/ \E id \in ShardIds : Quiescent /\ del_shard("d1", id) /\ UNCHANGED clientVars
    \/ Quiescent /\ clear_shards("d1") /\ UNCHANGED clientVars
    \/ kill_lands("d1") /\ UNCHANGED clientVars
    \/ Quiescent /\ construct /\ UNCHANGED clientVars
    \/ Quiescent /\ set_exception_event /\ UNCHANGED clientVars
    \/ Quiescent /\ stop /\ UNCHANGED clientVars
    \/ killall_lands /\ UNCHANGED clientVars
    \/ \E t \in Tasks : task_step(t) /\ UNCHANGED clientVars

\* Discovery knows two shards, "a" and "b", one object each.
Next ==
    \/ \E o \in {"a1", "b1"} :
          Quiescent /\ add_shard("d1", o) /\ UNCHANGED clientVars
    \/ Rest

Spec == Init /\ [][Next]_vars

\* Discovery knows one shard, "a", and creates two objects for it.
NextTwin ==
    \/ \E o \in {"a1", "a2"} :
          Quiescent /\ add_shard("d1", o) /\ UNCHANGED clientVars
    \/ Rest

SpecTwin == Init /\ [][NextTwin]_vars

\* The service at work: discovery adds the two shards, the engine polls
\* them, time passes and clients query.  No shard is removed and the
\* backends answer every call, with or without the activity field.
QueryIds == {<<>>, <<"a">>, <<"a", "b">>, <<"b", "a">>, <<"a", "a">>}
MaxAges == {0, 1}
ServeOps == {OPS_ACTIVE_THRESH, OpsMissing}

NextServe ==
    \/ \E o \in {"a1", "b1"} : add_shard("d1", o) /\ UNCHANGED clientVars
    \/ construct /\ UNCHANGED clientVars
    \/ \E t \in Tasks : poll_start(t, "ok") /\ UNCHANGED clientVars
    \/ \E t \in Tasks : retry(t, "ok") /\ UNCHANGED clientVars
    \/ \E t \in Tasks : poll_again(t) /\ UNCHANGED clientVars
    \/ \E t \in Tasks, ops \in ServeOps : fetch_ok(t, ops) /\ UNCHANGED clientVars
    \/ Tick
    \/ \E ids \in QueryIds, ap \in BOOLEAN, ma \in MaxAges :
          GetInfos(ids, {}, ap, ma, FALSE)

SpecServe == Init /\ [][NextServe]_vars

\* The registry and its clients, with no engine: clients subscribe and
\* unsubscribe callbacks, discovery adds, removes and clears, and a client
\* keeps the values the two getters return.
Builds == {"py2", "py3"}
Events == {ADDED, REMOVED}

NextBus ==
    \/ \E ev \in Events, cb \in Callbacks : subscribe_shard_event(ev, cb)
    \/ \E ev \in Events, cb \in Callbacks : unsub_shard_event(ev, cb)
    \/ \E o \in Objs : add_shard_seen("d1", o)
    \/ \E id \in ShardIds : del_shard_seen("d1", id)
    \/ \E id \in ShardIds : del_shard_absent("d1", id)
    \/ clear_shards_seen("d1")
    \/ \E b \in Builds : keep_live_shards(b)
    \/ keep_live_shard_ids

SpecBus == Init /\ [][NextBus]_vars

\* Two discovery contexts that do not wait for each other: while one is
\* suspended in a removal's kill(), the other adds and removes.  The
\* backends answer every call, with or without the activity field.
NextRace ==
    \/ \E c \in Ctxs, o \in {"a1", "b1"} : add_shard(c, o) /\ UNCHANGED clientVars
    \/ \E c \in Ctxs, id \in ShardIds : del_shard(c, id) /\ UNCHANGED clientVars
    \/ \E c \in Ctxs : kill_lands(c) /\ UNCHANGED clientVars
    \/ construct /\ UNCHANGED clientVars
    \/ \E t \in Tasks : poll_start(t, "ok") /\ UNCHANGED clientVars
    \/ \E t \in Tasks : retry(t, "ok") /\ UNCHANGED clientVars
    \/ \E t \in Tasks : poll_again(t) /\ UNCHANGED clientVars
    \/ \E t \in Tasks, ops \in ServeOps : fetch_ok(t, ops) /\ UNCHANGED clientVars

SpecRace == Init /\ [][NextRace]_vars

\* The shard entity alone: snapshots land on two shard objects through the
\* info setter, with activity on both sides of, on and between the
\* thresholds, or without the activity field.
PaceOps == {0, OPS_INACTIVE_THRESH, OPS_INACTIVE_THRESH + 1,
            OPS_ACTIVE_THRESH - 1, OPS_ACTIVE_THRESH, OPS_ACTIVE_THRESH + 1,
            OpsMissing}

NextPace == \E o \in {"a1", "b1"}, ops \in PaceOps : set_info(o, ops)

SpecPace == Init /\ [][NextPace]_vars

\* Queries with keys: the shards are polled, with or without the activity
\* field, and clients ask for them with several key sets, exact and by
\* prefix.
FilterIds == {<<>>, <<"a">>, <<"b", "a">>}
FilterKeys == {{}, {OPS_KEY}, {<<"i">>}, {<<"o">>}, {REST_KEY, <<"z">>},
               {<<"i", "o", "p">>}}

NextFilter ==
    \/ \E o \in {"a1", "b1"} : add_shard("d1", o) /\ UNCHANGED clientVars
    \/ construct /\ UNCHANGED clientVars
    \/ \E t \in Tasks : poll_start(t, "ok") /\ UNCHANGED clientVars
    \/ \E t \in Tasks : retry(t, "ok") /\ UNCHANGED clientVars
    \/ \E t \in Tasks : poll_again(t) /\ UNCHANGED clientVars
    \/ \E t \in Tasks, ops \in ServeOps : fetch_ok(t, ops) /\ UNCHANGED clientVars
    \/ \E ids \in FilterIds, ks \in FilterKeys, pm \in BOOLEAN :
          GetInfos(ids, ks, FALSE, 0, pm)

SpecFilter == Init /\ [][NextFilter]_vars

\* ================================================================ claims
tracked == {id \in ShardIds : greenlets[id] # NoRef}
Idle(c) == ctx[c].pc = "idle"

\* C1: in every reachable state at most one live polling task exists for
\* any shard id, whatever ADDED events (also for an id that already has a
\* task), REMOVED events and Stop() came before.
C1_OneLiveTaskPerShard ==
    \A id \in ShardIds : Cardinality(LiveTasksOf(id)) <= 1

\* an ADDED event came for "a" while its task existed: the registry holds
\* one object, the only live task still polls the other
C1_Witness ==
    /\ engine = "running"
    /\ shards["a"] = "a2"
    /\ \E t \in Tasks : LiveTasksOf("a") = {t} /\ task[t].shard = "a1"
                        /\ task[t].pc = "sleep"

\* C2 as stated: while the engine is constructed and not stopped and no
\* registry call is in progress, the ids of activeTasks are the registry's.
C2_MirrorsRegistry ==
    (engine = "running" /\ Quiescent) => tracked = get_live_shard_ids

\* activeTasks mirrors the registry, counting the id whose RemoveShard is
\* suspended in the kill of its task
Consistent ==
    tracked = get_live_shard_ids
                \cup {ctx[c].id : c \in {x \in Ctxs : ~Idle(x)}}

\* a step of Clear(): the registry is emptied and the engine hears nothing
IsClear ==
    /\ shards # shards'
    /\ shards' = [id \in ShardIds |-> None]
    /\ UNCHANGED <<greenlets, task, ctx>>

\* C2, amended: while the engine runs, activeTasks mirrors the registry
\* from construction on, and only Clear(), which drops shards without a
\* REMOVED event, breaks the mirror.
C2_MirrorsUnlessCleared ==
    [][(engine' = "running" /\ ~Consistent' /\ (engine = "none" \/ Consistent))
        => IsClear]_vars

\* after a removal has returned: one shard is gone from both, the other is
\* in both and has been polled
C2_Witness ==
    /\ engine = "running" /\ Quiescent
    /\ tracked = {"b"} /\ get_live_shard_ids = {"b"}
    /\ info["a1"].set /\ info["b1"].set

\* C3: a RemoveShard(id) that has returned leaves no entry and no live task
\* for id, and the AddShard that follows leaves exactly one live task for
\* id, the one activeTasks holds.
C3_ExactlyOneAfterReAdd ==
    [][\A id \in ShardIds :
        /\ (\E c \in Ctxs : ctx[c].pc = "kill" /\ ctx[c].id = id /\ Idle(c)')
            => (greenlets'[id] = NoRef /\ LiveTasksOf(id)' = {})
        /\ (/\ engine = "running"
            /\ shards[id] = None /\ greenlets[id] = NoRef
            /\ shards'[id] # None)
            => (greenlets'[id] # NoRef /\ LiveTasksOf(id)' = {greenlets'[id]})
      ]_vars

\* the shard was polled, removed and added again: a task that has not run
\* yet stands for a shard object that already has a snapshot
C3_Witness ==
    /\ engine = "running" /\ Quiescent
    /\ shards["a"] = "a1" /\ info["a1"].set
    /\ greenlets["a"] # NoRef /\ task[greenlets["a"]].pc = "spawned"

\* the engine after Stop() has returned
Inert ==
    /\ tracked = {}
    /\ ~Subscribed(subs_new, "_add_shard")
    /\ ~Subscribed(subs_del, "_remove_shard")
    /\ \A t \in Tasks : ~Alive(task[t])

\* C4: after Stop() has returned activeTasks is empty, the engine is
\* subscribed to neither event, no task lives, and no shard's snapshot,
\* timestamp or interval changes again, also for shards added later.
C4_InertAfterStop ==
    [][engine' = "stopped"
        => (Inert' /\ (engine = "stopped" => UNCHANGED shardVars))]_vars

\* stopped, with a snapshot taken before the stop and a shard in the
\* registry that has none
C4_Witness ==
    /\ engine = "stopped"
    /\ \E o \in Objs : info[o].set
    /\ \E id \in ShardIds : shards[id] # None /\ ~info[shards[id]].set

\* C5: an entry leaves activeTasks only with its task dead; when the
\* RemoveShard that was suspended in the kill returns, the entry is gone;
\* and a snapshot is written only by a live task that activeTasks holds
\* under the shard's id, so never for a removed shard.
C5_CancelledOnRemove ==
    [][/\ \A id \in ShardIds :
            (greenlets[id] # NoRef /\ greenlets'[id] = NoRef)
                => ~Alive(task'[greenlets[id]])
       /\ \A c \in Ctxs :
            (ctx[c].pc = "kill" /\ Idle(c)')
                => (greenlets'[ctx[c].id] = NoRef
                    /\ ~Alive(task'[ctx[c].target]))
       /\ \A o \in Objs :
            info'[o] # info[o]
                => \E t \in Tasks : /\ Alive(task[t]) /\ task[t].shard = o
                                    /\ greenlets[ObjId(o)] = t
      ]_vars

\* a REMOVED event was delivered while the task sat in its backoff sleep
C5_Witness ==
    \E c \in Ctxs : /\ ctx[c].pc = "kill"
                    /\ task[ctx[c].target].pc = "backoff"

\* a step that is task t's own run (no registry call, no Stop)
OwnStep(t) == task'[t] # task[t] /\ UNCHANGED <<ctx, engine, shards>>
\* a step in which the backend or the connection factory raised
Raised == faults' = faults + 1

\* C6: a transient failure leaves the task alive in a backoff of the fixed
\* length, whatever the count; after the backoff the task attempts again
\* (it reaches the fetch, or resolving the connection fails again); and a
\* task ends only by cancellation or by a non-transient failure that uses
\* up the grace.
C6_TransientNeverTerminates ==
    [][\A t \in Tasks :
        /\ (/\ OwnStep(t)
            /\ task'[t].consecutive_redis_failures
                 > task[t].consecutive_redis_failures)
            => (task'[t].pc = "backoff" /\ task'[t].sleep_for = REDIS_COOL_OFF)
        /\ (OwnStep(t) /\ task[t].pc = "backoff")
            => (task'[t].pc = "fetch" \/ Raised)
        /\ (Alive(task[t]) /\ ~Alive(task'[t]))
            => \/ ctx' # ctx \/ engine' # engine
               \/ /\ task'[t].exit = "error"
                  /\ task[t].consecutive_general_failures + 1 >= Grace
      ]_vars

\* after as many transient failures in a row as the model allows, the task
\* is in the fetch again
C6_Witness ==
    \E t \in Tasks : /\ task[t].pc = "fetch"
                     /\ task[t].consecutive_redis_failures = MaxRedisFailures

\* C7: a non-transient failure that leaves the general-failure counter
\* below the grace puts the task in the cool-off of the fixed length and
\* tells the sink nothing, and after the cool-off the task attempts again;
\* the failure that brings the counter to the grace ends the task and, when
\* a sink is set, hands it that error.
C7_GraceThenTerminate ==
    [][\A t \in Tasks :
        /\ (/\ OwnStep(t)
            /\ task'[t].consecutive_general_failures
                 > task[t].consecutive_general_failures)
            => /\ task'[t].consecutive_general_failures
                    = task[t].consecutive_general_failures + 1
               /\ task'[t].consecutive_general_failures < Grace
               /\ task'[t].pc = "cooloff"
               /\ task'[t].sleep_for = GENERAL_COOL_OFF
               /\ exception_event' = exception_event
        /\ (OwnStep(t) /\ task[t].pc = "cooloff")
            => (task'[t].pc = "fetch" \/ Raised)
        /\ (OwnStep(t) /\ Alive(task[t]) /\ ~Alive(task'[t]))
            => /\ task[t].consecutive_general_failures + 1 = Grace
               /\ task'[t].exit = "error"
               /\ IF exception_event.set
                  THEN /\ exception_event'.exc = ObjId(task[t].shard)
                       /\ exception_event'.calls
                            = Min(exception_event.calls + 1, MaxSinkCalls)
                  ELSE exception_event' = exception_event
      ]_vars

\* a task has ended on its failures and the sink holds its error
C7_Witness ==
    /\ exception_event.calls = 1 /\ exception_event.exc = "a"
    /\ greenlets["a"] # NoRef /\ task[greenlets["a"]].exit = "error"

\* C8: at most one error is ever delivered to the failure sink: once it
\* has been told an error, no later call delivers or overwrites one.
C8_FirstFailureWins ==
    [][exception_event.calls >= 1 => exception_event' = exception_event]_vars

\* C9: after a task has ended on a non-transient failure, an ADDED event
\* for its id, with no REMOVED in between, starts a new task; and a task
\* appears for an id only on an ADDED event or at construction.
C9_FreshAddRespawns ==
    [][\A id \in ShardIds :
        /\ (/\ engine = "running"
            /\ greenlets[id] # NoRef /\ task[greenlets[id]].exit = "error"
            /\ shards'[id] # None /\ shards'[id] # shards[id])
            => LiveTasksOf(id)' # {}
        /\ (LiveTasksOf(id) = {} /\ LiveTasksOf(id)' # {})
            => (engine' # engine \/ (shards'[id] # None /\ shards'[id] # shards[id]))
      ]_vars

\* C10: a run of one shard's task changes no other task's record (its
\* counters, its suspension point, its liveness), no other shard object's
\* snapshot, timestamp or interval, and nothing of the registry or of
\* activeTasks.
C10_FailuresContained ==
    [][\A t \in Tasks :
        OwnStep(t)
            => /\ \A u \in Tasks \ {t} : task'[u] = task[u]
               /\ \A o \in Objs \ {task[t].shard} :
                    /\ info'[o] = info[o]
                    /\ info_timestamp'[o] = info_timestamp[o]
                    /\ interval'[o] = interval[o]
               /\ UNCHANGED <<registryVars, greenlets>>
      ]_vars

\* shard "a"'s task has ended on its failures; shard "b"'s task has polled
\* and sleeps
C10_Witness ==
    /\ greenlets["a"] # NoRef /\ task[greenlets["a"]].exit = "error"
    /\ greenlets["b"] # NoRef /\ task[greenlets["b"]].pc = "sleep"
    /\ info["b1"].set

\* C11: a step that stores a payload as a shard's snapshot sets the shard's
\* snapshotTimestamp to the clock's reading, so that a shard with a snapshot
\* carries the time of its last successful poll (and now - timestamp is the
\* age a Query reports).
C11_TimestampIsWriteTime ==
    [][\A o \in Objs :
        (info'[o].set /\ info'[o].tick # info[o].tick)
            => info_timestamp'[o] = now
      ]_vars

\* C12: the construction of an engine subscribes it to both events and
\* leaves one task, spawned and not yet run, for every shard that was live,
\* and no other; a task's first run reaches the fetch unless resolving the
\* connection raises; and a fetch that returns leaves the shard with a
\* snapshot.
C12_ConstructionPollsLive ==
    [][/\ (engine = "none" /\ engine' = "running")
            => /\ Subscribed(subs_new', "_add_shard")
               /\ Subscribed(subs_del', "_remove_shard")
               /\ tracked' = get_live_shard_ids
               /\ \A id \in get_live_shard_ids :
                    /\ task'[greenlets'[id]] = Spawned(shards[id])
                    /\ LiveTasksOf(id)' = {greenlets'[id]}
       /\ \A t \in Tasks :
            /\ (OwnStep(t) /\ task[t].pc = "spawned" /\ ~Raised)
                 => task'[t].pc = "fetch"
            /\ (OwnStep(t) /\ task[t].pc = "fetch" /\ ~Raised)
                 => info'[task[t].shard].set
      ]_vars

\* both shards were live before the engine was constructed, neither had a
\* snapshot, and each has one after its task's first cycle
C12_Witness ==
    /\ engine = "running" /\ polls = 2
    /\ \A id \in ShardIds :
         /\ greenlets[id] # NoRef /\ task[greenlets[id]].pc = "sleep"
         /\ shards[id] # None /\ info[shards[id]].set

\* the ids and the objects the two getters report agree
GettersAgree == {ObjId(o) : o \in get_live_shards} = get_live_shard_ids

\* C13: a successful AddShard puts the shard's id in the live set, a
\* successful RemoveShard takes the id out, each leaves the other ids as
\* they were, and no other call but Clear() changes the set; both getters
\* report that set.
C13_LiveSetTracksAddRemove ==
    [][/\ \A o \in Objs :
            add_shard_seen("d1", o)
                => /\ get_live_shard_ids' = get_live_shard_ids \cup {ObjId(o)}
                   /\ get_live_shards'
                        = (get_live_shards \ {shards[ObjId(o)]}) \cup {o}
       /\ \A id \in ShardIds :
            del_shard_seen("d1", id)
                => /\ get_live_shard_ids' = get_live_shard_ids \ {id}
                   /\ get_live_shards' = get_live_shards \ {shards[id]}
       /\ (get_live_shards' # get_live_shards)
            => \/ \E o \in Objs : add_shard_seen("d1", o)
               \/ \E id \in ShardIds : del_shard_seen("d1", id)
               \/ clear_shards_seen("d1")
       /\ GettersAgree'
      ]_vars

\* "b" was added and removed again, as a subscriber saw; "a" was added and
\* is live
C13_Witness ==
    /\ get_live_shard_ids = {"a"} /\ get_live_shards = {"a2"}
    /\ calls # <<>> /\ calls[1].event = REMOVED /\ calls[1].shard = "b1"

\* how often the invocations hold callback cb
Invocations(log, cb) == Cardinality({i \in 1..Len(log) : log[i].tgt = cb})

OncePerSubscription(log, subs, event, o) ==
    /\ Len(log) = Len(subs)
    /\ \A i \in 1..Len(log) :
         log[i].tgt = subs[i] /\ log[i].event = event /\ log[i].shard = o

C15_UnsubscribedNotInvoked ==
    [][\A ev \in Events, cb \in Callbacks :
        (unsub_shard_event(ev, cb) /\ raised' = None)
            => /\ ~Subscribed(select_event_list(ev)', cb)
               /\ \A o \in Objs \cup {None} :
                    Invocations(notify(select_event_list(ev)', ev, o), cb) = 0
               /\ ev = ADDED => subs_del' = subs_del
               /\ ev = REMOVED => subs_new' = subs_new
               /\ \A other \in Callbacks \ {cb} :
                    Invocations(notify(select_event_list(ev)', ev, None), other)
                      = Invocations(notify(select_event_list(ev), ev, None), other)
      ]_vars

\* C16: RemoveShard of an id the registry does not hold raises, invokes no
\* callback and leaves the live set and both subscriber lists as they were.
C16_RemoveAbsentFails ==
    [][\A id \in ShardIds :
        del_shard_absent("d1", id)
            => /\ raised' = "KeyError"
               /\ calls' = <<>>
               /\ get_live_shards' = get_live_shards
               /\ UNCHANGED registryVars
      ]_vars

\* a removal has failed with a REMOVED subscriber present and another shard
\* live
C16_Witness ==
    /\ raised = "KeyError" /\ calls = <<>>
    /\ subs_del # <<>> /\ shards["a"] = None /\ shards["b"] = "b1"

\* C17: Unsubscribe of a callback that is not subscribed to that kind
\* raises and leaves both subscriber lists as they were, also when the
\* callback is subscribed to the other kind.
C17_UnsubscribeUnknownFails ==
    [][\A ev \in Events, cb \in Callbacks :
        (unsub_shard_event(ev, cb) /\ ~Subscribed(select_event_list(ev), cb))
            => /\ raised' = "ValueError"
               /\ UNCHANGED <<subs_new, subs_del>>
      ]_vars

\* an unsubscribe from REMOVED has failed for a callback that is
\* subscribed to ADDED only
C17_Witness ==
    /\ raised = "ValueError"
    /\ subs_new = <<"f">> /\ subs_del = <<"g">>

\* C18: Clear() leaves no live shard, invokes no callback and leaves both
\* subscriber lists as they were.
C18_ClearIsSilent ==
    [][clear_shards_seen("d1")
        => /\ get_live_shards' = {} /\ get_live_shard_ids' = {}
           /\ calls' = <<>> /\ raised' = None
           /\ UNCHANGED <<subs_new, subs_del>>
      ]_vars

\* two shards were live with a REMOVED subscriber present; after the clear
\* none is live and the subscriber was not invoked
C18_Witness ==
    /\ get_live_shard_ids = {} /\ calls = <<>> /\ raised = None
    /\ subs_del = <<"f">>
    /\ held.kind = "set" /\ held.ids = {"a", "b"}

\* C19: while a client keeps a value a getter returned, the value's
\* membership stays what it was, whatever the registry does.
C19_GettersReturnCopies ==
    [][held' = held => (HeldObjs' = HeldObjs /\ HeldIds' = HeldIds)]_vars

\* the ids of a query's target list that cannot be resolved
Unresolved(ids) ==
    {i \in 1..Len(ids) :
        shards[ids[i]] = None \/ ~info[shards[ids[i]]].set}

\* C20: a Query without allowPartial whose target list holds an id that is
\* absent or has no snapshot raises the error of the first such id and
\* returns no record, also when ids before it were resolved; with every id
\* resolved it raises nothing.
C20_StrictQueryFailsWhole ==
    [][\A ids \in QueryIds \ {<<>>}, ma \in MaxAges :
        GetInfos(ids, {}, FALSE, ma, FALSE)
            => IF Unresolved(ids) = {}
               THEN raised' = None /\ Len(resp') <= Len(ids)
               ELSE LET i == CHOOSE k \in Unresolved(ids) :
                                  \A j \in Unresolved(ids) : k <= j
                    IN  /\ resp' = <<>>
                        /\ raised' = (IF shards[ids[i]] = None THEN "not found"
                                      ELSE "not available")
      ]_vars

\* a query for "a" and "b" has failed on "b", which is live and has no
\* snapshot, after "a" was resolved
C20_Witness ==
    /\ raised = "not available" /\ resp = <<>>
    /\ shards["a"] = "a1" /\ info["a1"].set
    /\ info["a1"].meta.shard_identifier = "a"
    /\ shards["b"] = "b1" /\ ~info["b1"].set

\* the positions of a target list whose shard is polled and too old for ma
Skipped(ids, ma) ==
    {i \in (1..Len(ids)) \ Unresolved(ids) :
        ma # 0 /\ now - info_timestamp[shards[ids[i]]] > ma}
\* the positions of a target list that get a record
KeptPos(ids, ma) == (1..Len(ids)) \ Skipped(ids, ma)
\* the k-th smallest member of a set of positions
Pos(S, k) == CHOOSE i \in S : Cardinality({j \in S : j < i}) = k - 1

\* C21: a Query with allowPartial raises nothing; every position of the
\* target list whose id is absent or has no snapshot gets one record,
\* whatever maxAge is, with that id as shard_identifier, an info_age above
\* 10^9 seconds and the error of its failure, and the positions after it get
\* their records too; a resolved position gets a record without error.
C21_PartialQueryDegrades ==
    [][\A ids \in QueryIds \ {<<>>}, ma \in MaxAges :
        GetInfos(ids, {}, TRUE, ma, FALSE)
            => /\ raised' = None
               /\ Len(resp') = Cardinality(KeptPos(ids, ma))
               /\ Unresolved(ids) \subseteq KeptPos(ids, ma)
               /\ \A k \in 1..Len(resp') :
                    LET i == Pos(KeptPos(ids, ma), k)
                        r == resp'[k]
                    IN  IF i \in Unresolved(ids)
                        THEN /\ r.of = None /\ r.data = <<>>
                             /\ r.meta.shard_identifier = ids[i]
                             /\ r.meta.has_age
                             /\ r.meta.info_age > 2 * 1000000000
                             /\ r.meta.error
                                  = (IF shards[ids[i]] = None THEN "not found"
                                     ELSE "not available")
                        ELSE r.of = shards[ids[i]] /\ r.meta.error = None
      ]_vars

\* a query for "b" and "a" has returned a degraded record for "b", which is
\* live and has no snapshot, and then the record of "a"
C21_Witness ==
    /\ raised = None /\ Len(resp) = 2
    /\ resp[1].meta.error = "not available"
    /\ resp[1].meta.shard_identifier = "b"
    /\ resp[2].of = "a1" /\ resp[2].meta.error = None

\* C22: a Query, with any arguments and whether it returns or raises,
\* leaves every shard's snapshot with its metadata, timestamp and interval,
\* and the registry, as they were.
C22_QueryIsReadOnly ==
    [][\A ids \in QueryIds, ap \in BOOLEAN, ma \in MaxAges :
        GetInfos(ids, {}, ap, ma, FALSE)
            => UNCHANGED <<info, info_timestamp, interval, registryVars>>
      ]_vars

\* C23: a Query that returns gives a polled shard's position a record
\* exactly when maxAge is unset or now - snapshotTimestamp <= maxAge; a
\* position left out raises nothing and gets no degraded record either.
C23_MaxAgeOmitsOlder ==
    [][\A ids \in QueryIds \ {<<>>}, ap \in BOOLEAN, ma \in MaxAges :
        (GetInfos(ids, {}, ap, ma, FALSE) /\ raised' = None)
            => \A o \in Objs :
                 LET asked == {i \in (1..Len(ids)) \ Unresolved(ids) :
                                  shards[ids[i]] = o}
                     given == {k \in 1..Len(resp') : resp'[k].of = o}
                     age == now - info_timestamp[o]
                 IN  /\ (ma = 0 \/ age <= ma)
                        => Cardinality(given) = Cardinality(asked)
                     /\ (ma # 0 /\ age > ma)
                        => /\ given = {}
                           /\ asked # {}
                                => \A k \in 1..Len(resp') :
                                     resp'[k].meta.shard_identifier # ObjId(o)
      ]_vars

\* a shard's record came back at age 1 = maxAge; one tick later the same
\* query has left the shard out and returned nothing, without an error
C23_Witness ==
    /\ raised = None /\ resp = <<>> /\ now = 2
    /\ shards["a"] = "a1" /\ info["a1"].set
    /\ info["a1"].meta.has_age /\ info["a1"].meta.info_age = 1

\* the keys of a shard's snapshot, 'meta' apart
SnapshotKeys(o) ==
    (IF info[o].ops = OpsMissing THEN {} ELSE {OPS_KEY}) \cup {REST_KEY}
\* the value the snapshot holds under a key
SnapshotValue(o, k) == IF k = OPS_KEY THEN info[o].ops ELSE info[o].tick
\* some member of keys is a prefix of k
HasPrefixIn(k, keys) == \E n \in 0..Len(k) : SubSeq(k, 1, n) \in keys

\* C24: the record a Query returns for a polled shard carries the shard's
\* id and age in its meta, and of the snapshot: every entry when keys is
\* empty; otherwise the entries whose key is in keys, or with
\* prefixMatching those whose key starts with a member of keys; and no
\* other entry.
C24_RecordIsFilteredSnapshot ==
    [][\A ids \in FilterIds, ks \in FilterKeys, pm \in BOOLEAN :
        (GetInfos(ids, ks, FALSE, 0, pm) /\ raised' = None)
            => \A k \in 1..Len(resp') :
                 LET r == resp'[k]
                     o == r.of
                     want == IF ks = {} THEN SnapshotKeys(o)
                             ELSE IF pm
                             THEN {f \in SnapshotKeys(o) : HasPrefixIn(f, ks)}
                             ELSE SnapshotKeys(o) \cap ks
                 IN  /\ o # None
                     /\ DOMAIN r.data = want
                     /\ \A f \in want : r.data[f] = SnapshotValue(o, f)
                     /\ r.meta.has_age
                     /\ r.meta.info_age = now - info_timestamp[o]
                     /\ r.meta.shard_identifier = ObjId(o)
      ]_vars

\* a query has returned one field of a snapshot that holds two
C24_Witness ==
    /\ raised = None /\ Len(resp) = 1
    /\ resp[1].of = "a1" /\ info["a1"].ops = OPS_ACTIVE_THRESH
    /\ DOMAIN resp[1].data = {REST_KEY}
    /\ resp[1].meta.shard_identifier = "a"

\* the shard_identifier values of a response, in its order
Identifiers(r) == [k \in 1..Len(r) |-> r[k].meta.shard_identifier]
\* the members of a target list at the positions that get a record, in order
KeptIds(ids, ma) ==
    [k \in 1..Cardinality(KeptPos(ids, ma)) |-> ids[Pos(KeptPos(ids, ma), k)]]

\* C25: a Query without shardIds targets the ids of the live shards that
\* have a snapshot: it raises nothing, also with allowPartial false and live
\* shards that were never polled, and its records are those of the polled
\* live shards not skipped for their age, one each; a Query with shardIds
\* targets that list as given, so with allowPartial and no maxAge every
\* member of the list, unknown ones included, has its record.
C25_TargetsResolved ==
    [][/\ \A ap \in BOOLEAN, ma \in MaxAges :
            GetInfos(<<>>, {}, ap, ma, FALSE)
              => /\ raised' = None
                 /\ {resp'[k].meta.shard_identifier : k \in 1..Len(resp')}
                      = {id \in polled_live_ids :
                            ~(ma # 0 /\ now - info_timestamp[shards[id]] > ma)}
                 /\ Len(resp') = Cardinality({resp'[k].meta.shard_identifier :
                                                k \in 1..Len(resp')})
                 /\ \A k \in 1..Len(resp') : resp'[k].meta.error = None
       /\ \A ids \in QueryIds \ {<<>>} :
            GetInfos(ids, {}, TRUE, 0, FALSE) => Identifiers(resp') = ids
      ]_vars

\* a query has returned the record of "a" alone, without error, while "b"
\* is live and has never been polled
C25_Witness ==
    /\ raised = None /\ Len(resp) = 1
    /\ resp[1].of = "a1" /\ resp[1].meta.shard_identifier = "a"
    /\ shards["b"] = "b1" /\ ~info["b1"].set

\* C26: the shard_identifier values of a returned response are the target
\* list with the ids skipped for their age taken out: same order, one
\* record per remaining position, duplicates kept, nothing added.  Without
\* shardIds the target list is some order of the polled live ids.
C26_ResponseFollowsTargets ==
    [][\A ids \in QueryIds, ap \in BOOLEAN, ma \in MaxAges :
        (GetInfos(ids, {}, ap, ma, FALSE) /\ raised' = None)
            => IF ids # <<>>
               THEN Identifiers(resp') = KeptIds(ids, ma)
               ELSE \E q \in Orders(polled_live_ids) :
                       Identifiers(resp') = KeptIds(q, ma)
      ]_vars

\* a query has returned the records of "b" and "a", both polled, in that
\* order
C26_Witness ==
    /\ raised = None /\ Len(resp) = 2
    /\ resp[1].of = "b1" /\ resp[1].meta.shard_identifier = "b"
    /\ resp[2].of = "a1" /\ resp[2].meta.shard_identifier = "a"

\* C27: every shard's polling interval lies between MIN_POLLING_INTERVAL
\* and MAX_POLLING_INTERVAL in every reachable state, and is
\* MIN_POLLING_INTERVAL as long as the shard has no snapshot.
C27_IntervalWithinBounds ==
    \A o \in Objs :
        /\ interval[o] >= MIN_POLLING_INTERVAL
        /\ interval[o] <= MAX_POLLING_INTERVAL
        /\ ~info[o].set => interval[o] = MIN_POLLING_INTERVAL

\* an inactive snapshot has landed on a shard whose interval is at the
\* maximum, while the other shard has no snapshot yet
C27_Witness ==
    /\ info["a1"].set /\ info["a1"].ops = 0
    /\ interval["a1"] = MAX_POLLING_INTERVAL
    /\ ~info["b1"].set

\* the reference pacing function of an interval and an activity value
Paced(old, activity) ==
    IF activity >= OPS_ACTIVE_THRESH THEN MIN_POLLING_INTERVAL
    ELSE IF activity <= OPS_INACTIVE_THRESH
         THEN Min(old + POLLING_INTERVAL_STEP, MAX_POLLING_INTERVAL)
         ELSE old

\* C28: when a snapshot with an activity value lands on a shard, the shard's
\* new interval is MIN_POLLING_INTERVAL if the activity is at or above the
\* active threshold, the old interval plus one step but at most
\* MAX_POLLING_INTERVAL if it is at or below the inactive threshold, and the
\* old interval if it is strictly between the two; no other shard's
\* interval changes.
C28_IntervalFollowsPacing ==
    [][\A o \in Objs, ops \in PaceOps \ {OpsMissing} :
        set_info(o, ops)
            => /\ interval'[o] = Paced(interval[o], ops)
               /\ \A p \in Objs \ {o} : interval'[p] = interval[p]
      ]_vars

\* a snapshot with activity strictly between the thresholds is the latest
\* of a shard whose interval is neither bound
C28_Witness ==
    /\ info["a1"].set /\ info["a1"].ops = OPS_INACTIVE_THRESH + 1
    /\ interval["a1"] = MIN_POLLING_INTERVAL + 2 * POLLING_INTERVAL_STEP

\* C29: whenever no registry call is suspended, every entry of _greenlets
\* refers to a greenlet that has not finished: a task that exits because
\* its general failures reached the grace has no entry any more.
C29_EntriesAreLive ==
    Quiescent =>
        \A id \in ShardIds :
            greenlets[id] # NoRef => Alive(task[greenlets[id]])

\* C30: a removal of a shard whose id has no entry in _greenlets, with the
\* engine subscribed, returns at once to its caller and changes neither
\* _greenlets nor any greenlet nor the failure sink: nothing is cancelled.
C30_RemoveWithoutEntryIsNoOp ==
    [][\A c \in Ctxs, id \in ShardIds :
        (/\ del_shard(c, id)
         /\ Subscribed(subs_del, "_remove_shard")
         /\ greenlets[id] = NoRef)
            => /\ UNCHANGED <<greenlets, task, exception_event, engine>>
               /\ ctx' = ctx /\ ctx'[c].pc = "idle"
      ]_vars

\* shard "a" has been removed while it had no entry: the greenlet that
\* polls it, which had lost its entry to an earlier removal, is still alive
\* and no call is suspended
C30_Witness ==
    /\ Subscribed(subs_del, "_remove_shard")
    /\ shards["a"] = None /\ greenlets["a"] = NoRef
    /\ LiveTasksOf("a") # {}
    /\ \A c \in Ctxs : ctx[c].pc = "idle"

\* C31: whenever no registry call is suspended, for every id that is in the
\* registry and has an entry in _greenlets with a running greenlet, that
\* greenlet polls, and writes the info of, the shard object the registry
\* holds under the id.
C31_TaskWritesRegisteredShard ==
    Quiescent =>
        \A id \in ShardIds :
            (/\ shards[id] # None
             /\ greenlets[id] # NoRef
             /\ Alive(task[greenlets[id]]))
                => task[greenlets[id]].shard = shards[id]

\* C32: when a fetch returns a payload without the activity field, the
\* payload becomes the shard's info all the same and the interval stays as
\* it was; the poll counts as a general failure: the redis failure count is
\* kept, the general failure count grows by one and, when it reaches the
\* grace, the task ends and the failure sink, if one is set, is told.
C32_FieldlessPayloadStoredAndCounted ==
    [][\A t \in Tasks :
        fetch_ok(t, OpsMissing)
            => LET o == task[t].shard
                   tk == task[t]
               IN  /\ info'[o].set /\ info'[o].ops = OpsMissing
                   /\ info'[o].tick # info[o].tick
                   /\ interval' = interval
                   /\ IF tk.consecutive_general_failures + 1 < Grace
                      THEN /\ Alive(task'[t])
                           /\ task'[t].consecutive_general_failures
                                = tk.consecutive_general_failures + 1
                           /\ task'[t].consecutive_redis_failures
                                = tk.consecutive_redis_failures
                           /\ exception_event' = exception_event
                      ELSE /\ ~Alive(task'[t])
                           /\ IF exception_event.set
                              THEN /\ exception_event'.exc = ObjId(o)
                                   /\ exception_event'.calls
                                        = Min(exception_event.calls + 1,
                                              MaxSinkCalls)
                              ELSE exception_event' = exception_event
      ]_vars

\* the task of "a" has ended on an error after Grace polls, no call having
\* raised: each poll returned a payload without the field; the last one is
\* the shard's info and the failure sink holds the error
C32_Witness ==
    /\ polls = Grace /\ faults = 0
    /\ greenlets["a"] # NoRef /\ task[greenlets["a"]].exit = "error"
    /\ info["a1"].set /\ info["a1"].ops = OpsMissing
    /\ interval["a1"] = MIN_POLLING_INTERVAL
    /\ exception_event.set /\ exception_event.exc = "a"
    /\ shards["b"] = None

\* the three kinds of step that end an attempt of task t to poll
SuccessfulPoll(t) == \E ops \in OpsValues : fetch_ok(t, ops)
RedisFailure(t) ==
    \/ poll_start(t, "redis_error")
    \/ retry(t, "redis_error")
    \/ fetch_fails(t, "redis_error")
GeneralFailure(t) ==
    \/ poll_start(t, "error")
    \/ retry(t, "error")
    \/ fetch_fails(t, "error")
    \/ fetch_ok(t, OpsMissing)

\* C33: a successful poll sets both failure counts of its task to 0 and no
\* other step lowers either count of a running task; a redis failure adds
\* one to the redis count, whatever the general count is, and leaves the
\* general count; a general failure leaves the redis count and adds one to
\* the general count, and ends the task when that reaches the grace,
\* whatever the redis count is.
C33_CountersResetOnlyBySuccess ==
    [][\A t \in Tasks :
        LET tk == task[t]
            tk1 == task'[t]
        IN  /\ SuccessfulPoll(t)
                => /\ tk1.consecutive_redis_failures = 0
                   /\ tk1.consecutive_general_failures = 0
            /\ (Alive(tk) /\ Alive(tk1) /\ ~SuccessfulPoll(t))
                => /\ tk1.consecutive_redis_failures
                        >= tk.consecutive_redis_failures
                   /\ tk1.consecutive_general_failures
                        >= tk.consecutive_general_failures
            /\ RedisFailure(t)
                => /\ Alive(tk1)
                   /\ tk1.consecutive_redis_failures
                        = tk.consecutive_redis_failures + 1
                   /\ tk1.consecutive_general_failures
                        = tk.consecutive_general_failures
            /\ GeneralFailure(t)
                => IF tk.consecutive_general_failures + 1 < Grace
                   THEN /\ Alive(tk1)
                        /\ tk1.consecutive_general_failures
                             = tk.consecutive_general_failures + 1
                        /\ tk1.consecutive_redis_failures
                             = tk.consecutive_redis_failures
                   ELSE ~Alive(tk1)
      ]_vars

\* a running task has a redis failure count at the grace (warning severity)
\* and a general failure one short of it: failures of both kinds came with
\* no successful poll between them and neither count was reset
C33_Witness ==
    \E t \in Tasks :
        /\ Alive(task[t])
        /\ task[t].consecutive_redis_failures = Grace
        /\ task[t].consecutive_general_failures = Grace - 1

\* C34: with the engine running, once every registry call has returned,
\* every shard in the registry has a live polling task, also when a second
\* discovery context added the shard while a removal of its id was suspended
\* in kill().  (States in which a greenlet has ended on an error are left
\* out: a task that gave up is no lost event.)
C34_AddedEventNotLost ==
    (/\ engine = "running"
     /\ \A c \in Ctxs : ctx[c].pc = "idle"
     /\ \A t \in Tasks : task[t].exit # "error")
        => \A id \in ShardIds : shards[id] # None => LiveTasksOf(id) # {}

====
